---- MODULE Spec2Model ----
(***************************************************************************)
(* Interview-Questions-Generator (src/app.py): record building             *)
(* (InterviewGenerator.generate_interview), reference resolution           *)
(* (is_valid_url, validate_url, validate_url_access,                       *)
(* search_alternative_url), the re-validation pass of main, and the page   *)
(* stream of generate_pdf.                                                 *)
(*                                                                         *)
(* Text is a sequence of one-character strings, so that split, strip,      *)
(* find and the URL parse are computed on characters as Python does.       *)
(***************************************************************************)
EXTENDS Integers, Sequences, FiniteSets, TLC

VARIABLES
    pc,          \* position in the handler that is running
    raw,         \* response.choices[0].message.content, a token sequence
    topic,       \* caller-supplied topic
    difficulty,  \* caller-supplied difficulty
    net,         \* the network: URL -> outcome of a HEAD request
    probes,      \* log of the URLs handed to requests.head, in order
    data,        \* json.loads(content)["questions"] while the loop runs
    i,           \* loop index of the handler that is running (1-based)
    questions,   \* the List[Question] being built / held by main
    prev,        \* main: the list as generate_interview returned it
    validate_links, \* main: the "Validate reference links" checkbox
    pdf,         \* the PDF object of generate_pdf
    search_question, \* search_alternative_url called on its own: its argument
    alternative_url \* ... and what it returned

vars == <<pc, raw, topic, difficulty, net, probes, data, i, questions, prev,
          validate_links, pdf,
                   search_question, alternative_url>>

----------------------------------------------------------------------------
(* Bounds of the model. *)

\* entries of a payload's "questions" list
MaxEntries == 2
\* pieces an answer text is assembled from (reference resolution)
MaxAnswerPieces == 3
\* pieces a question text is assembled from (fallback search)
MaxQuestionPieces == 3
\* fallback candidates that are reachable at once
MaxReachable == 1
\* records handed to generate_pdf
MaxRecords == 3
\* physical lines one wrapped text can take on the page
MaxWrap == 6
\* pieces a fenced answer text is assembled from (rendering)
MaxFencePieces == 5

----------------------------------------------------------------------------
(* Characters and the str methods the program calls. *)

LowerLetters == <<"a","b","c","d","e","f","g","h","i","j","k","l","m",
                  "n","o","p","q","r","s","t","u","v","w","x","y","z">>
UpperLetters == <<"A","B","C","D","E","F","G","H","I","J","K","L","M",
                  "N","O","P","Q","R","S","T","U","V","W","X","Y","Z">>
Letters == {LowerLetters[k] : k \in 1..26} \cup {UpperLetters[k] : k \in 1..26}
Digits == {"0","1","2","3","4","5","6","7","8","9"}
\* the grave accent, which a TLA+ string cannot hold
Backtick == "<backtick>"
\* what str.strip()/rstrip() remove
Whitespace == {" ", "\n", "\t", "\r"}

RECURSIVE Flatten(_)
Flatten(ss) == IF ss = <<>> THEN <<>> ELSE Head(ss) \o Flatten(Tail(ss))

lower_char(c) ==
    IF \E k \in 1..26 : UpperLetters[k] = c
    THEN LowerLetters[CHOOSE k \in 1..26 : UpperLetters[k] = c]
    ELSE c

lower(s) == <<>> \o [k \in 1..Len(s) |-> lower_char(s[k])]

RECURSIVE lstrip(_)
lstrip(s) == IF s # <<>> /\ Head(s) \in Whitespace THEN lstrip(Tail(s)) ELSE s

RECURSIVE rstrip(_)
rstrip(s) ==
    IF s # <<>> /\ s[Len(s)] \in Whitespace
    THEN rstrip(SubSeq(s, 1, Len(s) - 1))
    ELSE s

strip(s) == lstrip(rstrip(s))

\* "sub in s"
contains(s, sub) ==
    \E k \in 1..(Len(s) - Len(sub) + 1) : SubSeq(s, k, k + Len(sub) - 1) = sub

\* s.find(sub), 1-based; 0 when absent
find(s, sub) ==
    IF contains(s, sub)
    THEN CHOOSE k \in 1..(Len(s) - Len(sub) + 1) :
            /\ SubSeq(s, k, k + Len(sub) - 1) = sub
            /\ \A m \in 1..(k - 1) : SubSeq(s, m, m + Len(sub) - 1) # sub
    ELSE 0

\* s.split(sep): leftmost, non-overlapping occurrences
RECURSIVE split(_, _)
split(s, sep) ==
    LET k == find(s, sep) IN
    IF k = 0 THEN <<s>>
    ELSE <<SubSeq(s, 1, k - 1)>> \o split(SubSeq(s, k + Len(sep), Len(s)), sep)

\* sep.join(words)
RECURSIVE join(_, _)
join(words, sep) ==
    IF words = <<>> THEN <<>>
    ELSE IF Len(words) = 1 THEN words[1]
    ELSE words[1] \o sep \o join(Tail(words), sep)

----------------------------------------------------------------------------
(* The Question dataclass and the literals of the program. *)

Question(q, a, d, t, r) ==
    [question |-> q, answer |-> a, difficulty |-> d, topic |-> t, reference |-> r]

SourceMarker == <<"S","o","u","r","c","e",":">>
FenceMarker == <<Backtick,Backtick,Backtick>>
InvalidSuffix == <<" ","(","L","i","n","k"," ","m","i","g","h","t"," ","b","e"," ","i","n","v","a","l","i","d",")">>
PlaceholderPrefix == <<"P","l","e","a","s","e"," ","e","x","p","l","a","i","n"," ","a"," ","k","e","y"," ","c","o","n","c","e","p","t"," ","i","n"," ">>
PlaceholderAnswer == <<"T","h","i","s"," ","i","s"," ","a"," ","p","l","a","c","e","h","o","l","d","e","r"," ","a","n","s","w","e","r","."," ","P","l","e","a","s","e"," ","t","r","y"," ","r","e","g","e","n","e","r","a","t","i","n","g"," ","t","h","e"," ","q","u","e","s","t","i","o","n","s",".">>
DefaultTopic == <<"I","n","t","e","r","v","i","e","w"," ","Q","u","e","s","t","i","o","n","s">>
HeaderTitle == <<"I","n","t","e","r","v","i","e","w"," ","Q","u","e","s","t","i","o","n","s">>

search_bases ==
    << <<"h","t","t","p","s",":","/","/","d","o","c","s",".","p","y","t","h","o","n",".","o","r","g","/","3","/">>,
       <<"h","t","t","p","s",":","/","/","d","e","v","e","l","o","p","e","r",".","m","o","z","i","l","l","a",".","o","r","g","/","e","n","-","U","S","/","d","o","c","s","/">>,
       <<"h","t","t","p","s",":","/","/","l","e","a","r","n",".","m","i","c","r","o","s","o","f","t",".","c","o","m","/","e","n","-","u","s","/","d","o","c","s","/">>,
       <<"h","t","t","p","s",":","/","/","w","w","w",".","g","e","e","k","s","f","o","r","g","e","e","k","s",".","o","r","g","/">>,
       <<"h","t","t","p","s",":","/","/","w","w","w",".","w","3","s","c","h","o","o","l","s",".","c","o","m","/">>,
       <<"h","t","t","p","s",":","/","/","w","w","w",".","t","u","t","o","r","i","a","l","s","p","o","i","n","t",".","c","o","m","/">> >>

Difficulties == {"Beginner", "Intermediate", "Expert"}

----------------------------------------------------------------------------
(* URL syntax: urlparse(url) as far as is_valid_url reads it. *)

SchemeChars == Letters \cup Digits \cup {"+", "-", "."}

\* urlsplit: the text before the first ':' is the scheme when it starts with
\* a letter and holds scheme characters only
HasScheme(url) ==
    LET c == find(url, <<":">>) IN
    /\ c > 1
    /\ url[1] \in Letters
    /\ \A k \in 1..(c - 1) : url[k] \in SchemeChars

AfterScheme(url) ==
    IF HasScheme(url)
    THEN SubSeq(url, find(url, <<":">>) + 1, Len(url))
    ELSE url

\* urlsplit: after "//", the netloc runs to the first of "/", "?", "#"
Netloc(url) ==
    LET rest == AfterScheme(url) IN
    IF Len(rest) >= 2 /\ SubSeq(rest, 1, 2) = <<"/", "/">>
    THEN LET ends == {k \in 3..Len(rest) : rest[k] \in {"/", "?", "#"}}
             stop == IF ends = {} THEN Len(rest) + 1
                     ELSE CHOOSE k \in ends : \A m \in ends : k <= m
         IN SubSeq(rest, 3, stop - 1)
    ELSE <<>>

is_valid_url(url) == HasScheme(url) /\ Netloc(url) # <<>>

----------------------------------------------------------------------------
(* The network. An outcome is what one HEAD request to the URL gives:      *)
(*   "ok"            200                                                   *)
(*   "redirect_dead" 3xx whose target answers 404                          *)
(*   "dead"          404                                                   *)
(*   "error"         requests raises (no host, timeout, malformed URL)     *)

NetOutcomes == {"ok", "redirect_dead", "dead", "error"}

Outcome(n, url) == IF url \in DOMAIN n THEN n[url] ELSE "error"

\* requests.head(url, timeout=5, allow_redirects=True).status_code == 200
validate_url_access(n, url) == Outcome(n, url) = "ok"

\* is_valid_url(url) and requests.head(url, timeout=3).status_code < 400
validate_url(n, url) ==
    is_valid_url(url) /\ Outcome(n, url) \in {"ok", "redirect_dead"}

----------------------------------------------------------------------------
(* search_alternative_url *)

IsWordChar(c) == c \in Letters \cup Digits \cup {"_"}

\* re.findall(r'\b\w+\b', s): the maximal runs of word characters
RECURSIVE findall_words(_, _)
findall_words(s, cur) ==
    LET flush == IF cur = <<>> THEN <<>> ELSE <<cur>> IN
    IF s = <<>> THEN flush
    ELSE IF IsWordChar(Head(s)) THEN findall_words(Tail(s), Append(cur, Head(s)))
    ELSE flush \o findall_words(Tail(s), <<>>)

LongWord(w) == Len(w) > 3

keywords(question) == SelectSeq(findall_words(lower(question), <<>>), LongWord)

\* the keywords joined without the [:3] slice
FirstThreeUnsliced(kw) == kw

\* keywords[:3]
FirstThree(kw) == SubSeq(kw, 1, IF Len(kw) < 3 THEN Len(kw) ELSE 3)

search_url(base, question) == base \o join(FirstThree(keywords(question)), <<"-">>)

\* the loop over search_bases from index b on; log is the requests made so far
RECURSIVE SearchFrom(_, _, _, _)
SearchFrom(n, question, b, log) ==
    IF b > Len(search_bases)
    THEN [found |-> FALSE, url |-> <<>>, probes |-> log]
    ELSE LET u == search_url(search_bases[b], question) IN
         IF validate_url_access(n, u)
         THEN [found |-> TRUE, url |-> u, probes |-> Append(log, u)]
         ELSE SearchFrom(n, question, b + 1, Append(log, u))

search_alternative_url(n, question, log) == SearchFrom(n, question, 1, log)

----------------------------------------------------------------------------
(* InterviewGenerator.generate_interview *)

Chr(c) == [t |-> "chr", c |-> c]
Obj(v) == [t |-> "obj", v |-> v]

\* the except branch: one placeholder Question
Fallback(t, d) ==
    << Question(PlaceholderPrefix \o t, PlaceholderAnswer, d, t, <<>>) >>

\* content.replace('\n', ' ').replace('\r', '')
RECURSIVE ReplaceNewlines(_)
ReplaceNewlines(content) ==
    IF content = <<>> THEN <<>>
    ELSE IF Head(content) = Chr("\n") THEN <<Chr(" ")>> \o ReplaceNewlines(Tail(content))
    ELSE IF Head(content) = Chr("\r") THEN ReplaceNewlines(Tail(content))
    ELSE <<Head(content)>> \o ReplaceNewlines(Tail(content))

IsSpaceTok(x) == x.t = "chr" /\ x.c \in Whitespace

RECURSIVE StripToks(_)
StripToks(content) ==
    IF content # <<>> /\ IsSpaceTok(Head(content)) THEN StripToks(Tail(content))
    ELSE IF content # <<>> /\ IsSpaceTok(content[Len(content)])
    THEN StripToks(SubSeq(content, 1, Len(content) - 1))
    ELSE content

\* content.find('{'), 1-based; 0 when absent
FindOpen(content) ==
    LET at == {k \in 1..Len(content) : content[k] = Chr("{")} IN
    IF at = {} THEN 0 ELSE CHOOSE k \in at : \A m \in at : k <= m

\* content.rfind('}') + 1, as a 1-based inclusive end; 0 when absent
RFindClose(content) ==
    LET at == {k \in 1..Len(content) : content[k] = Chr("}")} IN
    IF at = {} THEN 0 ELSE CHOOSE k \in at : \A m \in at : k >= m

\* "Clean JSON content": the slice from the first '{' to the last '}'
CleanContent(content) ==
    IF FindOpen(content) # 0 /\ RFindClose(content) # 0
    THEN SubSeq(content, FindOpen(content), RFindClose(content))
    ELSE content

\* json.loads: the text is one object in braces, white space around it
\* allowed; anything else raises JSONDecodeError
Loads(content) ==
    LET c == StripToks(content) IN
    IF Len(c) = 3 /\ c[1] = Chr("{") /\ c[2].t = "obj" /\ c[3] = Chr("}")
    THEN [ok |-> TRUE, v |-> c[2].v]
    ELSE [ok |-> FALSE, v |-> <<>>]

\* q.get("reference", "")
GetReference(q) == IF "reference" \in DOMAIN q THEN q["reference"] ELSE <<>>

\* the extraction without its is_valid_url test
ExtractUnguarded(answer, reference) ==
    IF reference = <<>> /\ contains(answer, SourceMarker)
    THEN LET parts == split(answer, SourceMarker)
             potential_url == strip(parts[Len(parts)])
         IN IF Len(parts) > 1
            THEN [reference |-> potential_url, answer |-> strip(parts[1])]
            ELSE [reference |-> reference, answer |-> answer]
    ELSE [reference |-> reference, answer |-> answer]

\* "Extract reference from answer if not provided in JSON"
Extract(answer, reference) ==
    IF reference = <<>> /\ contains(answer, SourceMarker)
    THEN LET parts == split(answer, SourceMarker)
             potential_url == strip(parts[Len(parts)])
         IN IF Len(parts) > 1 /\ is_valid_url(potential_url)
            THEN [reference |-> potential_url, answer |-> strip(parts[1])]
            ELSE [reference |-> reference, answer |-> answer]
    ELSE [reference |-> reference, answer |-> answer]

\* the condition of "Validate URL and search for alternative if invalid";
\* the probe is made only when the first two tests let it through
NeedsAlternative(n, reference) ==
    reference = <<>> \/ ~is_valid_url(reference) \/ ~validate_url_access(n, reference)

ProbesOriginal(reference) == reference # <<>> /\ is_valid_url(reference)

\* the resolution clearing the reference when the search finds nothing
ResolveClearing(reference, alt) == IF alt.found /\ alt.url # <<>> THEN alt.url ELSE <<>>

\* the reference kept when the search gives a URL or gives None
Resolve(reference, alt) == IF alt.found /\ alt.url # <<>> THEN alt.url ELSE reference

\* the API call raised instead of returning text
ApiError == <<[t |-> "exc"]>>

\* client.chat.completions.create: it returns the text, or raises into the
\* except branch
CallModel ==
    /\ pc = "call"
    /\ IF raw = ApiError
       THEN /\ questions' = Fallback(topic, difficulty)
            /\ pc' = "returned"
       ELSE /\ pc' = "parse"
            /\ UNCHANGED questions
    /\ UNCHANGED <<raw, topic, difficulty, net, probes, data, i, prev,
                   validate_links, pdf,
                   search_question, alternative_url>>

\* strip / replace / slice / json.loads / data["questions"]
Parse ==
    /\ pc = "parse"
    /\ LET content == CleanContent(ReplaceNewlines(StripToks(raw)))
           loaded == Loads(content)
       IN IF loaded.ok /\ "questions" \in DOMAIN loaded.v
          THEN /\ data' = loaded.v["questions"]
               /\ questions' = <<>>
               /\ i' = 1
               /\ pc' = "loop"
          ELSE /\ questions' = Fallback(topic, difficulty)
               /\ pc' = "returned"
               /\ UNCHANGED <<data, i>>
    /\ UNCHANGED <<raw, topic, difficulty, net, probes, prev, validate_links, pdf,
                   search_question, alternative_url>>

\* one iteration of "for q in data['questions']"
ProcessEntry ==
    /\ pc = "loop"
    /\ i <= Len(data)
    /\ LET q == data[i] IN
       IF "answer" \notin DOMAIN q
       THEN \* q["answer"] raises KeyError
            /\ questions' = Fallback(topic, difficulty)
            /\ pc' = "returned"
            /\ UNCHANGED <<probes, i>>
       ELSE LET ex == Extract(q["answer"], GetReference(q))
                log1 == IF ProbesOriginal(ex.reference)
                        THEN Append(probes, ex.reference)
                        ELSE probes
            IN IF "question" \notin DOMAIN q
               THEN \* q["question"] raises KeyError, after the first probe
                    /\ questions' = Fallback(topic, difficulty)
                    /\ pc' = "returned"
                    /\ probes' = log1
                    /\ UNCHANGED i
               ELSE IF NeedsAlternative(net, ex.reference)
               THEN LET alt == search_alternative_url(net, q["question"], log1) IN
                    /\ questions' = Append(questions,
                          Question(q["question"], ex.answer, difficulty, topic,
                                   Resolve(ex.reference, alt)))
                    /\ probes' = alt.probes
                    /\ i' = i + 1
                    /\ UNCHANGED pc
               ELSE /\ questions' = Append(questions,
                          Question(q["question"], ex.answer, difficulty, topic,
                                   ex.reference))
                    /\ probes' = log1
                    /\ i' = i + 1
                    /\ UNCHANGED pc
    /\ UNCHANGED <<raw, topic, difficulty, net, data, prev, validate_links, pdf,
                   search_question, alternative_url>>

\* "return questions"
Return ==
    /\ pc = "loop"
    /\ i > Len(data)
    /\ pc' = "returned"
    /\ UNCHANGED <<raw, topic, difficulty, net, probes, data, i, questions, prev,
                   validate_links, pdf,
                   search_question, alternative_url>>

NextGenerate == CallModel \/ Parse \/ ProcessEntry \/ Return

----------------------------------------------------------------------------
(* Inputs of record building. *)

TopicGraphs == <<"G","r","a","p","h","s">>
QuestionBFS == <<"W","h","a","t"," ","i","s"," ","B","F","S","?">>
QuestionHeap == <<"E","x","p","l","a","i","n"," ","h","e","a","p"," ","s","o","r","t">>
AnswerPlain == <<"v","i","s","i","t","s"," ","n","o","d","e","s">>
UrlA == <<"h","t","t","p",":","/","/","a",".","i","o","/","x">>

NoPdf == [state |-> "none"]
NoResult == [found |-> FALSE, url |-> <<>>]

\* text around the payload: nothing, a word, a stray brace, a line break
JunkSet == { <<>>, <<Chr("x")>>, <<Chr("{")>>, <<Chr("}")>>, <<Chr("\n")>> }

\* an entry holds any subset of the three fields
EntryFields == {"question", "answer", "reference"}
EntryValue(f) ==
    IF f = "question" THEN QuestionHeap
    ELSE IF f = "answer" THEN AnswerPlain
    ELSE UrlA
BuildEntries == { [f \in fs |-> EntryValue(f)] : fs \in SUBSET EntryFields }

RECURSIVE SeqsUpTo(_, _)
SeqsUpTo(S, n) ==
    IF n = 0 THEN { <<>> }
    ELSE LET shorter == SeqsUpTo(S, n - 1) IN
         shorter \cup { Append(s, x) : s \in {t \in shorter : Len(t) = n - 1}, x \in S }

BuildPayloads ==
    { <<>> }
    \cup { ApiError }
    \cup { <<Chr("{"), Obj([topic |-> TopicGraphs]), Chr("}")>> }
    \cup { <<Chr("{"), Obj([topic |-> TopicGraphs, questions |-> es]), Chr("}")>> :
             es \in SeqsUpTo(BuildEntries, MaxEntries) }

\* the first fallback candidate of QuestionHeap
CandidateHeap(b) == search_url(search_bases[b], QuestionHeap)

InitBuild ==
    /\ pc = "call"
    /\ raw \in { IF body = ApiError THEN body ELSE pre \o body \o post :
                    pre \in JunkSet, body \in BuildPayloads, post \in JunkSet }
    /\ topic = TopicGraphs
    /\ difficulty = "Beginner"
    /\ net \in { [u \in {UrlA} |-> "ok"],
                 [u \in {UrlA, CandidateHeap(2)} |-> IF u = UrlA THEN "dead" ELSE "ok"] }
    /\ probes = <<>>
    /\ data = <<>>
    /\ i = 0
    /\ questions = <<>>
    /\ prev = <<>>
    /\ validate_links = FALSE
    /\ pdf = NoPdf
    /\ search_question = <<>>
    /\ alternative_url = NoResult

SpecBuild == InitBuild /\ [][NextGenerate]_vars

----------------------------------------------------------------------------
(* Record building: what the caller gets for a raw text. *)

Parsed(r) == Loads(CleanContent(ReplaceNewlines(StripToks(r))))

\* the raw text holds a structured payload with a "questions" list
HasPayload(r) ==
    r # ApiError /\ Parsed(r).ok /\ "questions" \in DOMAIN Parsed(r).v

PayloadList(r) == Parsed(r).v["questions"]

WellFormed(e) == "question" \in DOMAIN e /\ "answer" \in DOMAIN e

Pairs(s) == [k \in 1..Len(s) |-> <<s[k]["question"], s[k]["answer"]>>]

\* C1: for every raw text, record building returns at least one Record, and
\* exactly the one placeholder Record when the parsed list is empty.
C1_AtLeastOneRecord ==
    pc = "returned" =>
        /\ Len(questions) >= 1
        /\ (HasPayload(raw) /\ PayloadList(raw) = <<>>
              => questions = Fallback(topic, difficulty))

\* C2: for every raw text that holds a valid payload, the Records returned
\* are the entries that have both question and answer, in the payload's
\* order; entries missing either field are dropped and the others are kept.
\* (When no entry is well-formed the list is empty, and C1's placeholder is
\* accepted as well.)
C2_WellFormedEntriesKept ==
    pc = "returned" /\ HasPayload(raw) =>
        LET kept == SelectSeq(PayloadList(raw), WellFormed) IN
        IF kept = <<>>
        THEN questions \in {<<>>, Fallback(topic, difficulty)}
        ELSE Pairs(questions) = Pairs(kept)

----------------------------------------------------------------------------
(* Reference resolution of one entry: inputs. *)

UrlMalformed == <<"a",".","i","o","/","x">>

\* an answer is assembled from these pieces, in any order
AnswerPieces == { <<"o","k">>, <<" ">>, SourceMarker, UrlA }
ResolveAnswers == { Flatten(ps) : ps \in SeqsUpTo(AnswerPieces, MaxAnswerPieces) }

ResolveEntries ==
    { [question |-> QuestionHeap, answer |-> a] : a \in ResolveAnswers }
    \cup { [question |-> QuestionHeap, answer |-> a, reference |-> r] :
             a \in ResolveAnswers, r \in {<<>>, UrlA, UrlMalformed} }

\* which fallback candidates answer 200
ReachableSets ==
    { C \in SUBSET (1..Len(search_bases)) : Cardinality(C) <= MaxReachable }

ResolveNets ==
    { [u \in {UrlA} \cup {CandidateHeap(b) : b \in C} |->
          IF u = UrlA THEN o ELSE "ok"] :
        C \in ReachableSets, o \in {"ok", "dead"} }

InitResolve ==
    /\ pc = "call"
    /\ raw \in { <<Chr("{"), Obj([topic |-> TopicGraphs, questions |-> <<e>>]),
                  Chr("}")>> : e \in ResolveEntries }
    /\ topic = TopicGraphs
    /\ difficulty = "Expert"
    /\ net \in ResolveNets
    /\ probes = <<>>
    /\ data = <<>>
    /\ i = 0
    /\ questions = <<>>
    /\ prev = <<>>
    /\ validate_links = FALSE
    /\ pdf = NoPdf
    /\ search_question = <<>>
    /\ alternative_url = NoResult

SpecResolve == InitResolve /\ [][NextGenerate]_vars

----------------------------------------------------------------------------
(* Reference resolution of one entry: properties. *)

\* the single entry of the payload was turned into the single Record
Resolved ==
    /\ pc = "returned"
    /\ HasPayload(raw)
    /\ Len(PayloadList(raw)) = 1
    /\ WellFormed(PayloadList(raw)[1])
    /\ Len(questions) = 1
    /\ questions # Fallback(topic, difficulty)

TheEntry == PayloadList(raw)[1]
TheRecord == questions[1]

AnyFallbackReachable ==
    \E b \in 1..Len(search_bases) :
        validate_url_access(net, search_url(search_bases[b], TheEntry["question"]))

\* the candidate the entry brings: its reference field or, failing that, the
\* URL taken from the answer
Candidate == Extract(TheEntry["answer"], GetReference(TheEntry)).reference

CandidateReachable ==
    Candidate # <<>> /\ is_valid_url(Candidate) /\ validate_url_access(net, Candidate)

MarkerAt(a) ==
    { k \in 1..(Len(a) - Len(SourceMarker) + 1) :
        SubSeq(a, k, k + Len(SourceMarker) - 1) = SourceMarker }
FirstMarker(a) == CHOOSE k \in MarkerAt(a) : \A m \in MarkerAt(a) : k <= m
LastMarker(a) == CHOOSE k \in MarkerAt(a) : \A m \in MarkerAt(a) : k >= m
BeforeFirstMarker(a) == SubSeq(a, 1, FirstMarker(a) - 1)
BeforeLastMarker(a) == SubSeq(a, 1, LastMarker(a) - 1)
AfterLastMarker(a) == SubSeq(a, LastMarker(a) + Len(SourceMarker), Len(a))

\* the entry has no reference of its own and its answer holds the marker
MarkerCase ==
    /\ Resolved
    /\ GetReference(TheEntry) = <<>>
    /\ MarkerAt(TheEntry["answer"]) # {}

\* C4 as stated: the answer stored is the text before the trailing marker
\* (compared up to surrounding white space), whatever follows the marker and
\* however often the marker occurs.
C4_MarkerAlwaysSplitOff ==
    MarkerCase =>
        strip(TheRecord.answer) = strip(BeforeLastMarker(TheEntry["answer"]))

\* C4 amended: when the text after the last marker, trimmed, is a well-formed
\* URL, it is the candidate reference (and the final one when reachable) and
\* the stored answer is the trimmed text before the FIRST marker; when it is
\* not a well-formed URL, nothing is split off and the answer is unchanged.
C4_SplitOnlyForWellFormedUrl ==
    MarkerCase =>
        LET a == TheEntry["answer"]
            url == strip(AfterLastMarker(a))
        IN IF is_valid_url(url)
           THEN /\ TheRecord.answer = strip(BeforeFirstMarker(a))
                /\ (validate_url_access(net, url) => TheRecord.reference = url)
           ELSE TheRecord.answer = a

\* the marker occurred twice before a reachable well-formed URL and was split
C4_Witness ==
    /\ MarkerCase
    /\ Cardinality(MarkerAt(TheEntry["answer"])) = 2
    /\ is_valid_url(strip(AfterLastMarker(TheEntry["answer"])))
    /\ TheRecord.reference = strip(AfterLastMarker(TheEntry["answer"]))
    /\ TheRecord.answer # strip(BeforeLastMarker(TheEntry["answer"]))

----------------------------------------------------------------------------
(* search_alternative_url called on its own. *)

CallSearch ==
    /\ pc = "search"
    /\ LET r == search_alternative_url(net, search_question, probes) IN
       /\ alternative_url' = [found |-> r.found, url |-> r.url]
       /\ probes' = r.probes
    /\ pc' = "searched"
    /\ UNCHANGED <<raw, topic, difficulty, net, data, i, questions, prev,
                   validate_links, pdf, search_question>>

NextSearch == CallSearch

\* a question is assembled from these pieces, in any order
QuestionPieces == { <<"H","e","a","p"," ","s","o","r","t"," ">>, <<"t","r","e","e","?">>, <<"i","s"," ">> }
SearchQuestions ==
    { Flatten(ps) : ps \in SeqsUpTo(QuestionPieces, MaxQuestionPieces) }

\* per base: answers 200 (at most MaxReachable of them), raises (at most
\* one of them), or answers 404
SearchNets(q) ==
    LET path == join(FirstThree(keywords(q)), <<"-">>)
        cand == [b \in 1..Len(search_bases) |-> search_bases[b] \o path]
    IN
    { [u \in {cand[b] : b \in 1..Len(search_bases)} |->
          IF \E b \in C : u = cand[b] THEN "ok"
          ELSE IF e # 0 /\ u = cand[e] THEN "error"
          ELSE "dead"] :
        C \in ReachableSets, e \in 0..Len(search_bases) }

InitSearch ==
    /\ pc = "search"
    /\ search_question \in SearchQuestions
    /\ net \in SearchNets(search_question)
    /\ raw = <<>>
    /\ topic = TopicGraphs
    /\ difficulty = "Intermediate"
    /\ probes = <<>>
    /\ data = <<>>
    /\ i = 0
    /\ questions = <<>>
    /\ prev = <<>>
    /\ validate_links = FALSE
    /\ pdf = NoPdf
    /\ alternative_url = NoResult

SpecSearch == InitSearch /\ [][NextSearch]_vars

\* the question tokens, stated on positions: <<a, b>> is a maximal run of
\* word characters of the question
TokenRuns(q) ==
    { r \in (1..Len(q)) \X (1..Len(q)) :
        /\ r[1] <= r[2]
        /\ \A k \in r[1]..r[2] : IsWordChar(q[k])
        /\ (r[1] = 1 \/ ~IsWordChar(q[r[1] - 1]))
        /\ (r[2] = Len(q) \/ ~IsWordChar(q[r[2] + 1])) }

LongRuns(q) == { r \in TokenRuns(q) : r[2] - r[1] + 1 >= 4 }

\* the first (at most 3) of a set of runs, in the order of the question
LeadingRuns(runs) ==
    { r \in runs : Cardinality({s \in runs : s[1] < r[1]}) < 3 }

RECURSIVE RunsText(_, _)
RunsText(q, runs) ==
    IF runs = {} THEN <<>>
    ELSE LET r == CHOOSE x \in runs : \A y \in runs : x[1] <= y[1] IN
         lower(SubSeq(q, r[1], r[2]))
           \o (IF runs = {r} THEN <<>> ELSE <<"-">>)
           \o RunsText(q, runs \ {r})

\* C10: one candidate per base (base + the first at most 3 tokens of length
\* >= 4, hyphen-joined); the bases are probed in list order; the candidate of
\* the first base whose probe succeeds is returned and no later base is
\* probed; nothing is returned when no probe succeeds; a probe that raises
\* counts as unreachable and the search goes on.
C10_FirstReachableBaseWins ==
    pc = "searched" =>
        LET long == LongRuns(search_question)
            path == RunsText(search_question, LeadingRuns(long))
            expected == [b \in 1..Len(search_bases) |-> search_bases[b] \o path]
            reachable == { b \in 1..Len(search_bases) : validate_url_access(net, expected[b]) }
            last == IF reachable = {} THEN Len(search_bases)
                    ELSE CHOOSE b \in reachable : \A c \in reachable : b <= c
        IN /\ probes = [b \in 1..last |-> expected[b]]
           /\ alternative_url.found = (reachable # {})
           /\ (alternative_url.found => alternative_url.url = expected[last])
           /\ (~alternative_url.found => alternative_url.url = <<>>)

\* a question with more than 3 long tokens; an earlier base raised, a later
\* base answered, the bases after it were not probed
C10_Witness ==
    /\ pc = "searched"
    /\ Cardinality(LongRuns(search_question)) > 3
    /\ alternative_url.found
    /\ Len(probes) > 1
    /\ Len(probes) < Len(search_bases)
    /\ \E k \in 1..(Len(probes) - 1) : Outcome(net, probes[k]) = "error"

----------------------------------------------------------------------------
(* main: the re-validation pass ("Validate reference links"). *)

\* the re-validation assigning the suffix instead of appending it
AnnotateReplacing(reference) == InvalidSuffix

\* q.reference += " (Link might be invalid)"
Annotate(reference) == reference \o InvalidSuffix

\* one iteration of "for q in questions" under "if validate_links"
Revalidate ==
    /\ pc = "validate"
    /\ questions # <<>>
    /\ validate_links
    /\ i <= Len(questions)
    /\ LET q == questions[i] IN
       IF q.reference # <<>>
       THEN /\ probes' = IF is_valid_url(q.reference)
                         THEN Append(probes, q.reference)
                         ELSE probes
            /\ questions' =
                 IF validate_url(net, q.reference)
                 THEN questions
                 ELSE [questions EXCEPT ![i].reference = Annotate(q.reference)]
       ELSE UNCHANGED <<probes, questions>>
    /\ i' = i + 1
    /\ UNCHANGED <<pc, raw, topic, difficulty, net, data, prev, validate_links, pdf,
                   search_question, alternative_url>>

\* the pass is over, or was not asked for, or there is nothing to show
Display ==
    /\ pc = "validate"
    /\ (questions = <<>> \/ ~validate_links \/ i > Len(questions))
    /\ pc' = "display"
    /\ UNCHANGED <<raw, topic, difficulty, net, probes, data, i, questions, prev,
                   validate_links, pdf, search_question, alternative_url>>

NextMain == Revalidate \/ Display

UrlB == <<"h","t","t","p","s",":","/","/","b",".","o","r","g">>

\* what generate_interview can leave in a reference: nothing, a URL, a
\* malformed text, a fallback candidate
MainReferences == { <<>>, UrlA, UrlB, UrlMalformed, CandidateHeap(1) }

MainQuestions ==
    { Question(QuestionBFS, AnswerPlain, d, TopicGraphs, r) :
        d \in {"Beginner"}, r \in MainReferences }

InitMain ==
    /\ pc = "validate"
    /\ questions \in SeqsUpTo(MainQuestions, MaxEntries)
    /\ prev = questions
    /\ validate_links \in BOOLEAN
    /\ net \in [{UrlA, UrlB} -> NetOutcomes]
    /\ raw = <<>>
    /\ topic = TopicGraphs
    /\ difficulty = "Beginner"
    /\ probes = <<>>
    /\ data = <<>>
    /\ i = 1
    /\ pdf = NoPdf
    /\ search_question = <<>>
    /\ alternative_url = NoResult

SpecMain == InitMain /\ [][NextMain]_vars

\* C5: after the pass, a non-empty reference whose re-probe failed is the
\* previous text followed by the invalidity suffix; a reference whose
\* re-probe succeeded, or an empty one, is unchanged; question, answer,
\* topic and difficulty are unchanged.
C5_AnnotatesNotReplaces ==
    pc = "display" /\ validate_links =>
        /\ Len(questions) = Len(prev)
        /\ \A k \in 1..Len(prev) :
            /\ questions[k].question = prev[k].question
            /\ questions[k].answer = prev[k].answer
            /\ questions[k].topic = prev[k].topic
            /\ questions[k].difficulty = prev[k].difficulty
            /\ questions[k].reference =
                 IF prev[k].reference # <<>> /\ ~validate_url(net, prev[k].reference)
                 THEN prev[k].reference \o <<" ","(","L","i","n","k"," ","m","i","g","h","t"," ","b","e"," ","i","n","v","a","l","i","d",")">>
                 ELSE prev[k].reference

\* the pass ran over a list with a reference that failed the re-probe and
\* one that passed it
C5_Witness ==
    /\ pc = "display"
    /\ validate_links
    /\ \E k \in 1..Len(prev) :
         /\ prev[k].reference # <<>>
         /\ questions[k].reference # prev[k].reference
    /\ \E k \in 1..Len(prev) :
         /\ prev[k].reference # <<>>
         /\ questions[k].reference = prev[k].reference

----------------------------------------------------------------------------
(* generate_pdf: the PDF subclass of FPDF.                                 *)
(*                                                                         *)
(* The page stream is p.ops, what was drawn and on which page, and         *)
(* p.calls, the header/footer callbacks FPDF made.  Lengths are in mm.     *)

\* rect(0, 0, 210, 297): the page height
PageHeight == 297
\* set_auto_page_break(auto=True, margin=15)
BreakMargin == 15

\* PDF.__init__
NewPDF(qs) ==
    [ state |-> "open",
      is_first_page |-> TRUE,
      topic |-> IF qs # <<>> THEN qs[1].topic ELSE DefaultTopic,
      page |-> 0,
      y |-> 0,
      ops |-> <<>>,
      calls |-> <<>> ]

Called(p, fn) ==
    [p EXCEPT !.calls = Append(@, [fn |-> fn, page |-> p.page,
                                   is_first_page |-> p.is_first_page])]

\* something is drawn on the current page
Draw(p, kind, text) ==
    [p EXCEPT !.ops = Append(@, [page |-> p.page, kind |-> kind, text |-> text])]

\* FPDF.ln(h)
ln(p, h) == [p EXCEPT !.y = @ + h]

\* PDF.footer; set_y(-25) counts from the bottom of the page
footer(p) ==
    IF ~p.is_first_page
    THEN [Called(p, "footer") EXCEPT !.y = PageHeight - 25]
    ELSE Called(p, "footer")

RECURSIVE add_page(_), cell(_, _, _, _)

\* PDF.header
header(p) ==
    IF ~p.is_first_page
    THEN ln(cell(Called(p, "header"), 10, "header", HeaderTitle), 5)
    ELSE Called(p, "header")

\* FPDF.add_page: footer of the page being left, new page with the cursor at
\* the top margin (1 cm), header of the new page
add_page(p) ==
    LET left == IF p.page > 0 THEN footer(p) ELSE p IN
    header([left EXCEPT !.page = @ + 1, !.y = 10])

\* automatic page break: a cell that would cross the break margin goes to a
\* new page
PageBreak(p, h) ==
    IF p.y + h > PageHeight - BreakMargin THEN add_page(p) ELSE p

\* FPDF.cell(w, h, txt, border, ln=1, ...)
cell(p, h, kind, text) ==
    LET q == PageBreak(p, h) IN
    [Draw(q, kind, text) EXCEPT !.y = @ + h]

\* the physical lines of a multi_cell after the first: each is a cell of
\* height h with the page-break test of cell; the lines that fit on the
\* current page are taken in one step
RECURSIVE more_lines(_, _, _)
more_lines(p, h, n) ==
    LET room == PageHeight - BreakMargin - p.y
        fit == IF room < h THEN 0 ELSE room \div h
    IN IF n <= 0 THEN p
       ELSE IF fit >= n THEN [p EXCEPT !.y = @ + n * h]
       ELSE IF fit > 0 THEN more_lines([p EXCEPT !.y = @ + fit * h], h, n - fit)
       ELSE more_lines([add_page(p) EXCEPT !.y = @ + h], h, n - 1)

\* FPDF.multi_cell(w, h, txt): the text wrapped into n >= 1 lines, each a
\* cell of height h; the text is logged where its first line is drawn
multi_cell(p, h, kind, text, n) == more_lines(cell(p, h, kind, text), h, n - 1)

\* the drawing of the cover page: background image, company name, tagline,
\* title, topic
cover_art(p) ==
    LET background == Draw(p, "background", <<>>)
        company == cell([background EXCEPT !.y = 30], 20, "cover", <<"a","c","c","r","e","d","i","a","n">>)
        tagline == cell([company EXCEPT !.y = 45], 10, "cover",
                        <<"c","r","e","d","e","n","t","i","a","l","s"," ","t","h","a","t"," ","m","a","t","t","e","r">>)
        title == cell(ln(tagline, 60), 20, "cover", <<"I","n","t","e","r","v","i","e","w"," ","Q","u","e","s","t","i","o","n","s">>)
    IN cell(ln(title, 10), 15, "cover_topic", p.topic)

\* create_cover_page without "self.is_first_page = False"
create_cover_page_flag_kept(p) == cover_art(p)

\* PDF.create_cover_page
create_cover_page(p) == [cover_art(p) EXCEPT !.is_first_page = FALSE]

\* the content started without a page of its own
StartContentOnCover(p) == p

\* "Add content pages": pdf.add_page()
StartContent(p) == add_page(p)

\* str(i)
RECURSIVE str(_)
str(n) ==
    LET d == <<"0","1","2","3","4","5","6","7","8","9">>[(n % 10) + 1] IN
    IF n < 10 THEN <<d>> ELSE str(n \div 10) \o <<d>>

\* line.rstrip() for line in code.split('\n')
RECURSIVE rstrip_all(_)
rstrip_all(lines) ==
    IF lines = <<>> THEN <<>> ELSE <<rstrip(Head(lines))>> \o rstrip_all(Tail(lines))

\* the code block skipped when the fenced segment is empty
CodeBlockSkippingEmpty(p, code, w) ==
    LET lines == rstrip_all(split(code, <<"\n">>)) IN
    IF code = <<>> THEN p
    ELSE ln(more_lines(cell(p, 7, "code", join(lines, <<"\n">>)), 7, Len(lines) * w - 1), 5)

\* one fenced segment: every source line a filled multi_cell of height 7,
\* of w physical lines, then ln(5)
CodeBlock(p, code, w) ==
    LET lines == rstrip_all(split(code, <<"\n">>)) IN
    ln(more_lines(cell(p, 7, "code", join(lines, <<"\n">>)), 7, Len(lines) * w - 1), 5)

\* "Write text before first code block" / "Write text after code block"
ProseBlock(p, text, w) ==
    IF strip(text) # <<>>
    THEN ln(multi_cell(p, 10, "prose", strip(text), w), 5)
    ELSE p

\* for j in range(1, len(parts), 2), from the part at 1-based index j
RECURSIVE FencedFrom(_, _, _, _)
FencedFrom(p, parts, j, w) ==
    IF j > Len(parts) THEN p
    ELSE LET coded == CodeBlock(p, strip(parts[j]), w)
             after == IF j + 1 <= Len(parts)
                      THEN ProseBlock(coded, parts[j + 1], w)
                      ELSE coded
         IN FencedFrom(after, parts, j + 2, w)

\* the branch 'if "```" in question.answer'
FencedAnswer(p, answer, w) ==
    LET parts == split(answer, FenceMarker) IN
    FencedFrom(ProseBlock(p, parts[1], w), parts, 2, w)

\* the else branch left in the code font
PlainAnswerAsCode(p, answer, w) == multi_cell(p, 10, "code", answer, w)

\* the else branch: pdf.multi_cell(0, 10, question.answer)
PlainAnswer(p, answer, w) == multi_cell(p, 10, "prose", answer, w)

\* one iteration of "for i, question in enumerate(questions, 1)"; every
\* wrapped text of the record takes w physical lines
render_question(p, idx, q, n, w) ==
    LET label == multi_cell(p, 10, "label", <<"Q","u","e","s","t","i","o","n"," ">> \o str(idx) \o <<":">>, 1)
        asked == ln(multi_cell(label, 10, "question", q.question, w), 5)
        answer_label == cell(asked, 10, "label", <<"A","n","s","w","e","r",":">>)
        answered == IF contains(q.answer, FenceMarker)
                    THEN FencedAnswer(answer_label, q.answer, w)
                    ELSE PlainAnswer(answer_label, q.answer, w)
        cited == IF q.reference # <<>>
                 THEN cell(ln(answered, 5), 10, "reference",
                           <<"S","o","u","r","c","e",":"," ">> \o q.reference)
                 ELSE answered
        spaced == ln(cited, 10)
    IN IF idx < n THEN ln(Draw(spaced, "separator", <<>>), 10) ELSE spaced

\* pdf = PDF()
Construct ==
    /\ pc = "pdf_new"
    /\ pdf' = NewPDF(questions)
    /\ pc' = "pdf_add_cover"
    /\ UNCHANGED <<raw, topic, difficulty, net, probes, data, i, questions, prev,
                   validate_links, search_question, alternative_url>>

\* "Add cover page": pdf.add_page()
AddCoverPage ==
    /\ pc = "pdf_add_cover"
    /\ pdf' = add_page(pdf)
    /\ pc' = "pdf_cover"
    /\ UNCHANGED <<raw, topic, difficulty, net, probes, data, i, questions, prev,
                   validate_links, search_question, alternative_url>>

\* pdf.create_cover_page()
CreateCoverPage ==
    /\ pc = "pdf_cover"
    /\ pdf' = create_cover_page(pdf)
    /\ pc' = "pdf_add_content"
    /\ UNCHANGED <<raw, topic, difficulty, net, probes, data, i, questions, prev,
                   validate_links, search_question, alternative_url>>

\* "Add content pages"
AddContentPage ==
    /\ pc = "pdf_add_content"
    /\ pdf' = StartContent(pdf)
    /\ i' = 1
    /\ pc' = "pdf_content"
    /\ UNCHANGED <<raw, topic, difficulty, net, probes, data, questions, prev,
                   validate_links, search_question, alternative_url>>

RenderQuestion ==
    /\ pc = "pdf_content"
    /\ i <= Len(questions)
    /\ \E w \in 1..MaxWrap :
         pdf' = render_question(pdf, i, questions[i], Len(questions), w)
    /\ i' = i + 1
    /\ UNCHANGED <<pc, raw, topic, difficulty, net, probes, data, questions, prev,
                   validate_links, search_question, alternative_url>>

\* pdf.output(pdf_output): FPDF.close calls the footer of the last page
Output ==
    /\ pc = "pdf_content"
    /\ i > Len(questions)
    /\ pdf' = [footer(pdf) EXCEPT !.state = "closed"]
    /\ pc' = "pdf_done"
    /\ UNCHANGED <<raw, topic, difficulty, net, probes, data, i, questions, prev,
                   validate_links, search_question, alternative_url>>

NextPdf ==
    \/ Construct
    \/ AddCoverPage
    \/ CreateCoverPage
    \/ AddContentPage
    \/ RenderQuestion
    \/ Output

----------------------------------------------------------------------------
(* generate_pdf: N records. *)

AnswerFenced == <<"s","e","e"," ",Backtick,Backtick,Backtick,"x"," ","="," ","1",Backtick,Backtick,Backtick," ","d","o","n","e">>

LayoutQuestions ==
    { Question(QuestionBFS, AnswerPlain, "Beginner", TopicGraphs, <<>>),
      Question(QuestionHeap, AnswerPlain, "Beginner", TopicGraphs, UrlA),
      Question(QuestionHeap, AnswerFenced, "Beginner", TopicGraphs, <<>>) }

InitLayout ==
    /\ pc = "pdf_new"
    /\ questions \in SeqsUpTo(LayoutQuestions, MaxRecords)
    /\ prev = questions
    /\ validate_links = FALSE
    /\ net = <<>>
    /\ raw = <<>>
    /\ topic = TopicGraphs
    /\ difficulty = "Beginner"
    /\ probes = <<>>
    /\ data = <<>>
    /\ i = 0
    /\ pdf = NoPdf
    /\ search_question = <<>>
    /\ alternative_url = NoResult

SpecLayout == InitLayout /\ [][NextPdf]_vars

\* the pages on which something of the given kinds was drawn
PagesOf(kinds) == { pdf.ops[k].page : k \in {m \in 1..Len(pdf.ops) : pdf.ops[m].kind \in kinds} }

CoverKinds == {"background", "cover", "cover_topic"}
ContentKinds == {"label", "question", "prose", "code", "reference", "separator"}

\* C6: for every N >= 0, the finished document's first page is the cover
\* page, there is exactly one cover page and at least one content page after
\* it; for N = 0 the document is the cover page plus one empty content page.
C6_OneCoverThenContent ==
    pc = "pdf_done" =>
        /\ pdf.state = "closed"
        /\ pdf.page >= 2
        /\ PagesOf(CoverKinds) = {1}
        /\ PagesOf(ContentKinds) \subseteq 2..pdf.page
        /\ \E k \in 1..Len(pdf.ops) :
             pdf.ops[k] = [page |-> 1, kind |-> "cover_topic",
                           text |-> IF questions = <<>> THEN DefaultTopic
                                    ELSE questions[1].topic]
        /\ (questions = <<>> => pdf.page = 2 /\ PagesOf(ContentKinds) = {})

\* the document of an empty list, and a document whose records ran over
\* several content pages
C6_Witness ==
    /\ pc = "pdf_done"
    /\ \/ questions = <<>>
       \/ Len(questions) = MaxRecords /\ pdf.page >= 4

HeaderDrawnOn(page) ==
    Cardinality({k \in 1..Len(pdf.ops) :
                   pdf.ops[k].kind = "header" /\ pdf.ops[k].page = page})

HeaderCallsOn(page) ==
    { k \in 1..Len(pdf.calls) : pdf.calls[k].fn = "header" /\ pdf.calls[k].page = page }

\* the flag and the running header, in one state
CoverFlagState ==
    pdf.state # "none" =>
        \* true from construction to the end of create_cover_page, false after
        /\ pdf.is_first_page = (pc \in {"pdf_add_cover", "pdf_cover"})
        \* every page had its header callback once; the first page's ran
        \* with the flag true
        /\ \A page \in 1..pdf.page : Cardinality(HeaderCallsOn(page)) = 1
        /\ \A k \in HeaderCallsOn(1) : pdf.calls[k].is_first_page
        \* no header on the cover page, one on every content page
        /\ (pdf.page >= 1 => HeaderDrawnOn(1) = 0)
        /\ \A page \in 2..pdf.page : HeaderDrawnOn(page) = 1

\* the flag in one step: it never turns true, and it turns false only in
\* create_cover_page
CoverFlagStep ==
    pdf.state # "none" /\ pdf'.state # "none" =>
        /\ (pdf'.is_first_page => pdf.is_first_page)
        /\ (pdf'.is_first_page # pdf.is_first_page
              => pc = "pdf_cover" /\ pc' = "pdf_add_content")

\* C9: is_first_page starts true, is true when the first page's header
\* callback runs, becomes false once, at the end of create_cover_page, and
\* never becomes true again; the running header is not drawn on the cover
\* page and is drawn on every content page, the automatically started ones
\* included.
C9_CoverFlagOneWay == [](CoverFlagState) /\ [][CoverFlagStep]_vars

\* automatic pagination started two content pages beyond the first, each
\* with its header
C9_Witness ==
    /\ pc = "pdf_done"
    /\ pdf.page >= 4
    /\ ~pdf.is_first_page
    /\ \A page \in 2..pdf.page : HeaderDrawnOn(page) = 1

----------------------------------------------------------------------------
(* generate_pdf: the answer of one record. *)

DefLine == <<"d","e","f"," ","f","(",")",":">>

\* an answer is assembled from these pieces, in any order
FencePieces == { FenceMarker, <<"a">>, <<"\n">>, DefLine }
FenceAnswers == { Flatten(ps) : ps \in SeqsUpTo(FencePieces, MaxFencePieces) }

InitFence ==
    /\ pc = "pdf_new"
    /\ questions \in { <<Question(QuestionBFS, a, "Expert", TopicGraphs, <<>>)>> :
                         a \in FenceAnswers }
    /\ prev = questions
    /\ validate_links = FALSE
    /\ net = <<>>
    /\ raw = <<>>
    /\ topic = TopicGraphs
    /\ difficulty = "Expert"
    /\ probes = <<>>
    /\ data = <<>>
    /\ i = 0
    /\ pdf = NoPdf
    /\ search_question = <<>>
    /\ alternative_url = NoResult

SpecFence == InitFence /\ [][NextPdf]_vars

\* the spans of the answer as they were emitted: kind and text
Spans ==
    LET drawn == SelectSeq(pdf.ops, LAMBDA op : op.kind \in {"prose", "code"}) IN
    [k \in 1..Len(drawn) |-> [kind |-> drawn[k].kind, text |-> drawn[k].text]]

TheAnswer == questions[1].answer

\* the number of fence markers, counted as split counts them
Markers(a) == Len(split(a, FenceMarker)) - 1

\* one record with an even number >= 2 of fence markers was rendered
FencedCase ==
    /\ pc = "pdf_done"
    /\ Len(questions) = 1
    /\ Markers(TheAnswer) >= 2
    /\ Markers(TheAnswer) % 2 = 0

CodeSpans == SelectSeq(Spans, LAMBDA s : s.kind = "code")
ProseSpans == SelectSeq(Spans, LAMBDA s : s.kind = "prose")

\* the text between the (2k-1)th and the (2k)th marker, as it is shown
FencedSegment(a, k) ==
    join(rstrip_all(split(strip(split(a, FenceMarker)[2 * k]), <<"\n">>)), <<"\n">>)

OneCodeSpanPerSegment ==
    /\ Len(CodeSpans) = Markers(TheAnswer) \div 2
    /\ \A k \in 1..Len(CodeSpans) : CodeSpans[k].text = FencedSegment(TheAnswer, k)

NoFenceInProse ==
    \A k \in 1..Len(ProseSpans) : ~contains(ProseSpans[k].text, FenceMarker)

Outside(a, k) == strip(split(a, FenceMarker)[2 * k + 1])

\* the spans expected: for every fenced segment one code span, and a prose
\* span for every non-blank piece of text outside the fences
RECURSIVE ExpectedSpans(_, _)
ExpectedSpans(a, k) ==
    LET prose == IF Outside(a, k) # <<>>
                 THEN <<[kind |-> "prose", text |-> Outside(a, k)]>>
                 ELSE <<>>
    IN IF k = Markers(a) \div 2 THEN prose
       ELSE prose \o <<[kind |-> "code", text |-> FencedSegment(a, k + 1)]>>
                  \o ExpectedSpans(a, k + 1)

PlainCase ==
    /\ pc = "pdf_done"
    /\ Len(questions) = 1
    /\ ~contains(TheAnswer, FenceMarker)

\* the structural-code pattern family, as far as the answers here need it:
\* a line that opens a declaration
IsCodeLine(line) ==
    LET l == lstrip(line) IN
    Len(l) >= 4 /\ SubSeq(l, 1, 4) = <<"d","e","f"," ">>

LineKind(line) == IF IsCodeLine(line) THEN "code" ELSE "prose"

\* the kinds of the spans of per-line classification: consecutive lines of
\* one kind are one span
RECURSIVE MergedKinds(_)
MergedKinds(lines) ==
    IF Len(lines) <= 1 THEN [k \in 1..Len(lines) |-> LineKind(lines[k])]
    ELSE IF LineKind(lines[1]) = LineKind(lines[2]) THEN MergedKinds(Tail(lines))
    ELSE <<LineKind(lines[1])>> \o MergedKinds(Tail(lines))

SpanKinds == [k \in 1..Len(Spans) |-> Spans[k].kind]

====
